---- MODULE Spec2Model ----
(***************************************************************************)
(* Route planning over a height field (src/main.rs): PathNode, its         *)
(* successors / heuristic / success functions, and main's call of the A*   *)
(* search followed by unwrap and the drawing of the route.                 *)
(*                                                                         *)
(* Units.  Positions are integers as in PathNode.position.  The real       *)
(* valued step vector and world position are kept in thousandths           *)
(* (MILLI).  Real elevations (the f32 height_here) are kept in units of    *)
(* 1/HEIGHT_UNITS; PathNode.height is the elevation times                  *)
(* NODE_HEIGHT_MULTIPLIER cast to i32, as in the source.                   *)
(***************************************************************************)
EXTENDS Integers, Sequences, FiniteSets, TLC

MAX_TURN_ANGLE_DEG == 5
LEG_DISTANCE == 20
NODE_HEIGHT_MULTIPLIER == 1000
WIDTH == 512
HEIGHT == 512

\* Resolution of the real-valued step vector / world position.
MILLI == 10 * 10 * 10
\* Resolution of real elevations: one digit finer than PathNode.height.
HEIGHT_UNITS == NODE_HEIGHT_MULTIPLIER * 10

(***************************************************************************)
(* f32 results of lines 41-43 and of angle_deg_between_vec2 (line 23) for  *)
(* every integer step heading from -MAX_TURN_ANGLE_DEG to 184, computed    *)
(* in IEEE single precision: entry a + MAX_TURN_ANGLE_DEG + 1 is for       *)
(* heading a.  COS_MILLI / SIN_MILLI hold LEG_DISTANCE * cos / sin of the  *)
(* heading in thousandths (cut toward zero); ACOS_DEG holds the re-derived *)
(* heading acos(..).to_degrees() as i32.  The re-derived heading is |a| or *)
(* |a| - 1 (360 - a past 180) because the f32 angle lands just above or    *)
(* just below the integer before the cast cuts it.                         *)
(***************************************************************************)
COS_MILLI ==
  <<19923, 19951, 19972, 19987, 19996, 20000, 19996, 19987, 19972, 19951, 19923, 19890, 
    19850, 19805, 19753, 19696, 19632, 19562, 19487, 19405, 19318, 19225, 19126, 19021, 
    18910, 18793, 18671, 18543, 18410, 18270, 18126, 17975, 17820, 17658, 17492, 17320, 
    17143, 16960, 16773, 16580, 16383, 16180, 15972, 15760, 15542, 15320, 15094, 14862, 
    14627, 14386, 14142, 13893, 13639, 13382, 13121, 12855, 12586, 12313, 12036, 11755, 
    11471, 11183, 10892, 10598, 10300, 9999, 9696, 9389, 9079, 8767, 8452, 8134, 
    7814, 7492, 7167, 6840, 6511, 6180, 5847, 5512, 5176, 4838, 4499, 4158, 
    3816, 3472, 3128, 2783, 2437, 2090, 1743, 1395, 1046, 697, 349, 0, 
    -349, -697, -1046, -1395, -1743, -2090, -2437, -2783, -3128, -3472, -3816, -4158, 
    -4499, -4838, -5176, -5512, -5847, -6180, -6511, -6840, -7167, -7492, -7814, -8134, 
    -8452, -8767, -9079, -9389, -9696, -10000, -10300, -10598, -10892, -11183, -11471, -11755, 
    -12036, -12313, -12586, -12855, -13121, -13382, -13639, -13893, -14142, -14386, -14627, -14862, 
    -15094, -15320, -15542, -15760, -15972, -16180, -16383, -16580, -16773, -16960, -17143, -17320, 
    -17492, -17658, -17820, -17975, -18126, -18270, -18410, -18543, -18671, -18793, -18910, -19021, 
    -19126, -19225, -19318, -19405, -19487, -19562, -19632, -19696, -19753, -19805, -19850, -19890, 
    -19923, -19951, -19972, -19987, -19996, -20000, -19996, -19987, -19972, -19951>>

SIN_MILLI ==
  <<-1743, -1395, -1046, -697, -349, 0, 349, 697, 1046, 1395, 1743, 2090, 
    2437, 2783, 3128, 3472, 3816, 4158, 4499, 4838, 5176, 5512, 5847, 6180, 
    6511, 6840, 7167, 7492, 7814, 8134, 8452, 8767, 9079, 9389, 9696, 10000, 
    10300, 10598, 10892, 11183, 11471, 11755, 12036, 12313, 12586, 12855, 13121, 13382, 
    13639, 13893, 14142, 14386, 14627, 14862, 15094, 15320, 15542, 15760, 15972, 16180, 
    16383, 16580, 16773, 16960, 17143, 17320, 17492, 17658, 17820, 17975, 18126, 18270, 
    18410, 18543, 18671, 18793, 18910, 19021, 19126, 19225, 19318, 19405, 19487, 19562, 
    19632, 19696, 19753, 19805, 19850, 19890, 19923, 19951, 19972, 19987, 19996, 20000, 
    19996, 19987, 19972, 19951, 19923, 19890, 19850, 19805, 19753, 19696, 19632, 19562, 
    19487, 19405, 19318, 19225, 19126, 19021, 18910, 18793, 18671, 18543, 18410, 18270, 
    18126, 17975, 17820, 17658, 17492, 17320, 17143, 16960, 16773, 16580, 16383, 16180, 
    15972, 15760, 15542, 15320, 15094, 14862, 14627, 14386, 14142, 13893, 13639, 13382, 
    13121, 12855, 12586, 12313, 12036, 11755, 11471, 11183, 10892, 10598, 10300, 10000, 
    9696, 9389, 9079, 8767, 8452, 8134, 7814, 7492, 7167, 6840, 6511, 6180, 
    5847, 5512, 5176, 4838, 4499, 4158, 3816, 3472, 3128, 2783, 2437, 2090, 
    1743, 1395, 1046, 697, 349, 0, -349, -697, -1046, -1395>>

ACOS_DEG ==
  <<4, 4, 2, 2, 0, 0, 0, 2, 2, 4, 4, 5, 
    6, 8, 8, 9, 11, 11, 12, 13, 15, 16, 17, 17, 
    18, 20, 21, 22, 22, 24, 24, 25, 26, 27, 29, 30, 
    30, 31, 33, 34, 34, 35, 36, 38, 39, 39, 40, 42, 
    42, 43, 45, 45, 46, 48, 48, 49, 50, 51, 52, 53, 
    54, 55, 56, 57, 58, 60, 61, 61, 62, 63, 65, 66, 
    66, 67, 68, 69, 71, 72, 72, 73, 74, 75, 77, 78, 
    78, 79, 80, 81, 83, 84, 84, 85, 86, 87, 89, 90, 
    90, 91, 92, 93, 95, 96, 96, 97, 98, 99, 100, 101, 
    102, 103, 104, 105, 106, 107, 108, 109, 110, 111, 112, 113, 
    115, 115, 116, 117, 118, 120, 120, 122, 122, 123, 124, 125, 
    127, 127, 128, 130, 130, 132, 132, 133, 135, 135, 137, 137, 
    139, 139, 140, 142, 142, 144, 144, 145, 147, 147, 149, 149, 
    151, 151, 152, 154, 155, 156, 156, 157, 158, 159, 161, 161, 
    162, 163, 164, 166, 166, 168, 168, 170, 171, 171, 173, 174, 
    174, 175, 177, 177, 179, 180, 179, 177, 177, 175>>

(***************************************************************************)
(* Bounds of the model.                                                    *)
(***************************************************************************)
\* Largest canvas width sampled with the zone terrains.
MaxWidth == 40
\* Largest canvas width sampled with the flat terrain.
MaxFlatWidth == 100
\* Hops enumerated when the cheapest goal-reaching path is computed.
MaxDepth == 3
\* Cap on the entries of the search's node table.
MaxNodes == 400

\* Elevations the terrain takes, in 1/HEIGHT_UNITS.
Heights == {0, 2105}

VARIABLES
    width,      \* canvas width (WIDTH)
    max_turn,   \* turn window (MAX_TURN_ANGLE_DEG)
    terrain,    \* the height field, by zone
    parents,    \* astar: insertion-ordered node table (node, parent index, cost)
    to_see,     \* astar: the binary heap, as the set of its entries
    succ,       \* astar: the successor list returned for the last expanded node
    expanded,   \* astar: index of the last expanded node (0: none yet)
    result,     \* astar's return value
    pc,         \* main's position
    nodes,      \* main: the unwrapped route
    drawn       \* main: the line segments drawn over the image

vars == <<width, max_turn, terrain, parents, to_see, succ, expanded, result, pc, nodes, drawn>>

--------------------------------------------------------------------------
\* Casts and f32 helpers.

Abs(n) == IF n < 0 THEN -n ELSE n

\* `as i32` / `as u32` of a quotient: the fraction is dropped (toward zero).
Trunc(n, d) == IF n >= 0 THEN n \div d ELSE -((-n) \div d)

StepX(a) == COS_MILLI[a + MAX_TURN_ANGLE_DEG + 1]

StepY(a) == SIN_MILLI[a + MAX_TURN_ANGLE_DEG + 1]

\* angle_deg_between_vec2(direction_vec2, (1, 0)) for the step of heading a.
angle_deg_between_vec2(a) == ACOS_DEG[a + MAX_TURN_ANGLE_DEG + 1]

\* The same slope rounded to the nearest integer instead of cut.
get_absolute_slope_round(val1, val2) ==
    (Abs(val2 - val1) * 1000 + (LEG_DISTANCE * HEIGHT_UNITS) \div 2)
        \div (LEG_DISTANCE * HEIGHT_UNITS)

\* get_absolute_slope(LEG_DISTANCE, val1, val2) * 1000 as u32, with both
\* elevations in 1/HEIGHT_UNITS.
get_absolute_slope(val1, val2) ==
    Trunc(Abs(val2 - val1) * 1000, LEG_DISTANCE * HEIGHT_UNITS)

--------------------------------------------------------------------------
\* The height field.  The noise function is replaced by a piecewise
\* constant field over six zones of the plane: three column bands (left of
\* one leg, up to two legs less one unit, beyond) by two row bands (below
\* and from the start row upward).

Cols == 0..2

Rows == 0..1

Col(xm) ==
    IF xm < LEG_DISTANCE * MILLI THEN 0
    ELSE IF xm < (2 * LEG_DISTANCE - 1) * MILLI THEN 1 ELSE 2

Row(ym) == IF ym < (HEIGHT \div 2) * MILLI THEN 0 ELSE 1

Terrains == [Cols \X Rows -> Heights]

\* NOISE_AMPLITUDE * simplex_noise_2d_seeded(pos / NOISE_SCALE, SEED) at the
\* real-valued position (xm, ym), given in thousandths.
HeightAt(terr, xm, ym) == terr[<<Col(xm), Row(ym)>>]

--------------------------------------------------------------------------
\* PathNode.

PathNode(x, y, h, a) == [x |-> x, y |-> y, height |-> h, angle |-> a]

\* One element of successors(): the loop body for step heading a.  The
\* field step records the loop variable angle_deg; it is not part of the
\* returned pair.
Successor(terr, n, a) ==
    LET xm == StepX(a)
        ym == StepY(a)
        height_here == HeightAt(terr, n.x * MILLI + xm, n.y * MILLI + ym)
        slope1000 == get_absolute_slope(
                        n.height * (HEIGHT_UNITS \div NODE_HEIGHT_MULTIPLIER),
                        height_here)
    IN  [node |-> PathNode(Trunc(xm, MILLI) + n.x, Trunc(ym, MILLI) + n.y,
                           Trunc(height_here * NODE_HEIGHT_MULTIPLIER, HEIGHT_UNITS),
                           angle_deg_between_vec2(a)),
         cost |-> slope1000,
         step |-> a]

\* successors() over a range that starts at the current heading.
SuccessorsAhead(terr, turn, n) ==
    [i \in 1..(2 * turn) |-> Successor(terr, n, n.angle + i - 1)]

\* successors() over the closed range, its upper end included.
SuccessorsInclusive(terr, turn, n) ==
    [i \in 1..(2 * turn + 1) |-> Successor(terr, n, n.angle - turn + i - 1)]

\* successors(): one pair per heading of the half-open range
\* (angle - turn)..(angle + turn), in that order.
Successors(terr, turn, n) ==
    [i \in 1..(2 * turn) |-> Successor(terr, n, n.angle - turn + i - 1)]

\* A heuristic that estimates nothing.
heuristic_zero(w, n) == 0

heuristic(w, n) == IF w - n.x < 0 THEN 0 ELSE w - n.x

\* success with a strict comparison.
success_strict(w, n) == n.x > w

success(w, n) == n.x >= w

\* main's start_node.
StartNode(terr) ==
    PathNode(0, HEIGHT \div 2,
             Trunc(HeightAt(terr, 0, (HEIGHT \div 2) * MILLI) * NODE_HEIGHT_MULTIPLIER,
                   HEIGHT_UNITS),
             0)

--------------------------------------------------------------------------
\* pathfinding::astar as called at line 87.

None == [some |-> FALSE]

Some(path, cost) == [some |-> TRUE, path |-> path, cost |-> cost]

\* SmallestCostHolder ordering: a is popped before b when its estimated
\* cost is smaller, or on equal estimates when its cost is larger.
Before(a, b) == a.est < b.est \/ (a.est = b.est /\ a.cost > b.cost)

\* The entries the heap may hand out next: those no other entry precedes.
\* Entries equal in both keys are popped in an order the heap leaves open.
Top(heap) == {e \in heap : \A o \in heap : ~Before(o, e)}

IndexOf(ps, n) ==
    IF \E k \in 1..Len(ps) : ps[k].node = n
    THEN CHOOSE k \in 1..Len(ps) : ps[k].node = n
    ELSE 0

\* The loop over the successors of the node at index idx reached at cost:
\* a new node is entered and pushed; a known node is re-parented and pushed
\* only on a strictly smaller cost.
RECURSIVE Relax(_, _, _, _, _, _, _)
Relax(w, ps, heap, ss, i, idx, cost) ==
    IF i > Len(ss) THEN [ps |-> ps, heap |-> heap]
    ELSE
        LET s == ss[i]
            new_cost == cost + s.cost
            k == IndexOf(ps, s.node)
            entry == [node |-> s.node, parent |-> idx, cost |-> new_cost, step |-> s.step]
        IN  IF k = 0
            THEN Relax(w, Append(ps, entry),
                       heap \cup {[est |-> new_cost + heuristic(w, s.node),
                                   cost |-> new_cost, index |-> Len(ps) + 1]},
                       ss, i + 1, idx, cost)
            ELSE IF ps[k].cost > new_cost
            THEN Relax(w, [ps EXCEPT ![k] = entry],
                       heap \cup {[est |-> new_cost + heuristic(w, s.node),
                                   cost |-> new_cost, index |-> k]},
                       ss, i + 1, idx, cost)
            ELSE Relax(w, ps, heap, ss, i + 1, idx, cost)

\* reverse_path: the nodes from the start to index i along the parent links.
RECURSIVE PathTo(_, _)
PathTo(ps, i) ==
    IF i = 0 THEN <<>> ELSE Append(PathTo(ps, ps[i].parent), ps[i].node)

\* The step headings along the same links (one per edge of the path).
RECURSIVE StepsTo(_, _)
StepsTo(ps, i) ==
    IF ps[i].parent = 0 THEN <<>> ELSE Append(StepsTo(ps, ps[i].parent), ps[i].step)

--------------------------------------------------------------------------
\* Canvas widths sampled around the hop boundaries: the multiples of one
\* leg, one more, and two less.
Widths == {w \in 0..MaxWidth : w % LEG_DISTANCE \in {0, 1, LEG_DISTANCE - 2}}

\* Turn windows: the compiled-in one, and none at all (no successors).
TurnWindows == {0, MAX_TURN_ANGLE_DEG}

\* main up to the call of astar: start_node, and astar's own set-up.
Start(w, turn, terr) ==
    /\ width = w
    /\ max_turn = turn
    /\ terrain = terr
    /\ parents = <<[node |-> StartNode(terr), parent |-> 0, cost |-> 0, step |-> 0]>>
    /\ to_see = {[est |-> 0, cost |-> 0, index |-> 1]}
    /\ succ = <<>>
    /\ expanded = 0
    /\ result = None
    /\ pc = "search"
    /\ nodes = <<>>
    /\ drawn = <<>>

Init == \E w \in Widths, turn \in TurnWindows, terr \in Terrains : Start(w, turn, terr)

\* while let Some(..) = to_see.pop(): the dequeued node satisfies success
\* and the path to it is returned with its cost.
PopGoal ==
    /\ pc = "search"
    /\ \E e \in Top(to_see) :
        /\ success(width, parents[e.index].node)
        /\ to_see' = to_see \ {e}
        /\ result' = Some(PathTo(parents, e.index), e.cost)
        /\ pc' = "returned"
    /\ UNCHANGED <<width, max_turn, terrain, parents, succ, expanded, nodes, drawn>>

\* The dequeued node is no goal: an entry that is out of date (cost > c) is
\* dropped, any other is expanded and its successors are relaxed.
PopNode ==
    /\ pc = "search"
    /\ Len(parents) + 2 * max_turn <= MaxNodes
    /\ \E e \in Top(to_see) :
        /\ ~success(width, parents[e.index].node)
        /\ IF e.cost > parents[e.index].cost
           THEN /\ to_see' = to_see \ {e}
                /\ UNCHANGED <<parents, succ, expanded>>
           ELSE LET ss == Successors(terrain, max_turn, parents[e.index].node)
                    r == Relax(width, parents, to_see \ {e}, ss, 1, e.index, e.cost)
                IN  /\ succ' = ss
                    /\ expanded' = e.index
                    /\ parents' = r.ps
                    /\ to_see' = r.heap
    /\ UNCHANGED <<width, max_turn, terrain, result, pc, nodes, drawn>>

\* The heap is empty: astar returns None.
Exhausted ==
    /\ pc = "search"
    /\ to_see = {}
    /\ result' = None
    /\ pc' = "returned"
    /\ UNCHANGED <<width, max_turn, terrain, parents, to_see, succ, expanded, nodes, drawn>>

\* An unwrap that falls back to an empty route.
UnwrapOrDefault ==
    /\ pc = "returned"
    /\ nodes' = IF result.some THEN result.path ELSE <<>>
    /\ pc' = "render"
    /\ UNCHANGED <<width, max_turn, terrain, parents, to_see, succ, expanded, result, drawn>>

\* let nodes = result.unwrap().0: None panics.
Unwrap ==
    /\ pc = "returned"
    /\ IF result.some
       THEN nodes' = result.path /\ pc' = "render"
       ELSE nodes' = nodes /\ pc' = "panicked"
    /\ UNCHANGED <<width, max_turn, terrain, parents, to_see, succ, expanded, result, drawn>>

\* for i in 0..(nodes.len() - 1): one red segment per consecutive pair,
\* then the image is saved.
Render ==
    /\ pc = "render"
    /\ Len(nodes) >= 1
    /\ drawn' = [i \in 1..(Len(nodes) - 1) |->
                    <<nodes[i].x, nodes[i].y, nodes[i + 1].x, nodes[i + 1].y>>]
    /\ pc' = "done"
    /\ UNCHANGED <<width, max_turn, terrain, parents, to_see, succ, expanded, result, nodes>>

Next == PopGoal \/ PopNode \/ Exhausted \/ Unwrap \/ Render

Spec == Init /\ [][Next]_vars

--------------------------------------------------------------------------
\* The flat scenario: elevation zero everywhere, the compiled-in turn
\* window, canvas widths up to MaxFlatWidth and the compiled-in WIDTH.

Flat == [z \in Cols \X Rows |-> 0]

FlatWidths == (0..MaxFlatWidth) \cup {WIDTH}

InitFlat == \E w \in FlatWidths : Start(w, MAX_TURN_ANGLE_DEG, Flat)

\* With a turn window every expansion pushes new nodes, so the heap never
\* runs empty here.
NextFlat == PopGoal \/ PopNode \/ Unwrap \/ Render

SpecFlat == InitFlat /\ [][NextFlat]_vars

--------------------------------------------------------------------------
\* One call of successors() on a node of any recorded heading: the
\* re-derived headings lie between 0 and 180 degrees.  The node stands at
\* the border of the three column bands, at any elevation of the terrain.

Headings == 0..(2 * 90)

InitExpand ==
    \E terr \in Terrains, h \in Headings, e \in Heights :
        /\ width = WIDTH
        /\ max_turn = MAX_TURN_ANGLE_DEG
        /\ terrain = terr
        /\ parents = <<[node |-> PathNode(LEG_DISTANCE - 1, HEIGHT \div 2,
                                          Trunc(e * NODE_HEIGHT_MULTIPLIER, HEIGHT_UNITS), h),
                        parent |-> 0, cost |-> 0, step |-> 0]>>
        /\ to_see = {[est |-> 0, cost |-> 0, index |-> 1]}
        /\ succ = <<>>
        /\ expanded = 0
        /\ result = None
        /\ pc = "search"
        /\ nodes = <<>>
        /\ drawn = <<>>

ExpandOnce == expanded = 0 /\ PopNode

NextExpand == ExpandOnce

SpecExpand == InitExpand /\ [][NextExpand]_vars

--------------------------------------------------------------------------
\* Properties.

\* The step headings of the returned route, one per edge.
RouteSteps == StepsTo(parents, IndexOf(parents, result.path[Len(result.path)]))

\* The cheapest total edge cost of a path of at most d hops from n to a
\* node satisfying success, or -1 when no such path exists.
RECURSIVE BestCost(_, _)
BestCost(n, d) ==
    IF success(width, n) THEN 0
    ELSE IF d = 0 THEN -1
    ELSE LET ss == Successors(terrain, max_turn, n)
             via == {LET b == BestCost(ss[i].node, d - 1)
                     IN  IF b = -1 THEN -1 ELSE ss[i].cost + b : i \in DOMAIN ss} \ {-1}
         IN  IF via = {} THEN -1 ELSE CHOOSE c \in via : \A o \in via : c <= o

\* p leads from the start node to a goal along successor edges.
CompleteRoute(p) ==
    /\ Len(p) >= 1
    /\ p[1] = StartNode(terrain)
    /\ success(width, p[Len(p)])
    /\ \A i \in 1..(Len(p) - 1) :
        \E j \in 1..(2 * max_turn) :
            Successors(terrain, max_turn, p[i])[j].node = p[i + 1]

\* C1: whenever the search returns a route, its cost is at most the cost
\* of every path from the start node to a goal built from successors
\* (here: every such path of at most MaxDepth hops).
Optimality ==
    (pc = "returned" /\ result.some) =>
        LET b == BestCost(StartNode(terrain), MaxDepth)
        IN  b # -1 => result.cost <= b

\* C2: the heuristic of every node the search has reached never exceeds
\* the cheapest cost from that node to a goal; on the flat terrain the
\* heuristic of the start node is the optimal cost, zero.
Admissible ==
    \A k \in 1..Len(parents) :
        LET b == BestCost(parents[k].node, MaxDepth)
        IN  b # -1 => heuristic(width, parents[k].node) <= b

GoalSatisfaction ==
    result.some =>
        LET p == result.path
        IN  /\ Len(p) >= 1
            /\ p[Len(p)].x >= width
            /\ \A i \in 1..(Len(p) - 1) : p[i].x < width

GoalSatisfactionReached == pc = "done" /\ Len(nodes) >= 3 /\ nodes[Len(nodes)].x = width

\* C5: for consecutive nodes P, S of a returned route the recorded heading
\* of S lies in the window [h - turn, h + turn) of P's recorded heading h,
\* up to one degree of rounding.
HeadingBound ==
    result.some =>
        LET p == result.path
        IN  \A i \in 1..(Len(p) - 1) :
                /\ p[i].angle - max_turn - 1 <= p[i + 1].angle
                /\ p[i + 1].angle <= p[i].angle + max_turn

HeadingBoundReached ==
    /\ pc = "done"
    /\ \E i \in 2..(Len(nodes) - 1) :
        nodes[i].angle > 0 /\ nodes[i + 1].angle < nodes[i].angle

\* The same bound for every pair a single expansion emits, whatever the
\* recorded heading of the expanded node: in SpecExpand headings up to 180
\* and the one-degree loss of the cast occur.
HeadingBoundEveryHeading ==
    expanded # 0 =>
        \A i \in DOMAIN succ :
            /\ parents[expanded].node.angle - max_turn - 1 <= succ[i].node.angle
            /\ succ[i].node.angle <= parents[expanded].node.angle + max_turn

HeadingBoundEveryHeadingReached ==
    /\ expanded # 0
    /\ \E i \in DOMAIN succ :
        succ[i].node.angle = parents[expanded].node.angle - max_turn - 1

\* C6: astar returns None only with the heap empty and main then panics;
\* whatever is unwrapped, drawn or returned is a complete route from the
\* start node to a goal, never an empty or partial one.
FailureSurfaced ==
    /\ result.some => CompleteRoute(result.path)
    /\ pc \in {"render", "done"} => result.some /\ nodes = result.path
    /\ pc \in {"search", "returned", "panicked"} => nodes = <<>> /\ drawn = <<>>
    /\ pc = "panicked" => ~result.some /\ to_see = {}
    /\ pc = "done" => Len(drawn) = Len(nodes) - 1

FailureSurfacedReached == pc = "panicked" /\ width > 0

\* C7 as stated: on the flat terrain every edge cost is 0 and the returned
\* route has ceil(width / LEG_DISTANCE) steps, total cost 0, every step
\* straight ahead at heading 0.
Straight(p, st, i) ==
    /\ st[i] = 0
    /\ p[i + 1].x = p[i].x + LEG_DISTANCE
    /\ p[i + 1].y = p[i].y
    /\ p[i + 1].angle = 0

FlatHops == (width + LEG_DISTANCE - 1) \div LEG_DISTANCE

FlatRouteAllStraight ==
    /\ \A i \in DOMAIN succ : succ[i].cost = 0
    /\ result.some =>
        /\ Len(result.path) - 1 = FlatHops
        /\ result.cost = 0
        /\ \A i \in 1..FlatHops : Straight(result.path, RouteSteps, i)

\* C7 amended: on the flat terrain every edge cost is 0 and the returned
\* route has ceil(width / LEG_DISTANCE) steps and total cost 0; every step
\* but the last is straight ahead at heading 0, and the last one is too
\* when the width is a multiple of LEG_DISTANCE.
FlatRoute ==
    /\ \A i \in DOMAIN succ : succ[i].cost = 0
    /\ result.some =>
        /\ Len(result.path) - 1 = FlatHops
        /\ result.cost = 0
        /\ \A i \in 1..(FlatHops - 1) : Straight(result.path, RouteSteps, i)
        /\ (width % LEG_DISTANCE = 0 /\ FlatHops >= 1) =>
                Straight(result.path, RouteSteps, FlatHops)

FlatRouteReached == pc = "done" /\ width = 5 * LEG_DISTANCE /\ Len(nodes) = 6

\* The real elevation under successor s of node n, in 1/HEIGHT_UNITS.
ElevationAt(n, s) ==
    HeightAt(terrain, n.x * MILLI + StepX(s.step), n.y * MILLI + StepY(s.step))

\* The parent's stored elevation, in 1/HEIGHT_UNITS.
StoredElevation(n) == n.height * (HEIGHT_UNITS \div NODE_HEIGHT_MULTIPLIER)

\* C8 as stated: every emitted cost is 1000 * |new - current| / LEG_DISTANCE
\* rounded to the nearest integer, is non-negative, and is 0 for equal
\* elevations.
CostRounded ==
    expanded # 0 =>
        \A i \in DOMAIN succ :
            LET d == Abs(ElevationAt(parents[expanded].node, succ[i])
                         - StoredElevation(parents[expanded].node))
            IN  /\ 2 * LEG_DISTANCE * HEIGHT_UNITS * succ[i].cost
                        <= 2 * 1000 * d + LEG_DISTANCE * HEIGHT_UNITS
                /\ 2 * 1000 * d - LEG_DISTANCE * HEIGHT_UNITS
                        < 2 * LEG_DISTANCE * HEIGHT_UNITS * succ[i].cost
                /\ succ[i].cost >= 0
                /\ d = 0 => succ[i].cost = 0

\* C8 amended: every emitted cost is 1000 * |new - current| / LEG_DISTANCE
\* with the fraction dropped (the greatest integer not above it), is
\* non-negative, and is 0 for equal elevations.
CostTruncated ==
    expanded # 0 =>
        \A i \in DOMAIN succ :
            LET d == Abs(ElevationAt(parents[expanded].node, succ[i])
                         - StoredElevation(parents[expanded].node))
            IN  /\ LEG_DISTANCE * HEIGHT_UNITS * succ[i].cost <= 1000 * d
                /\ 1000 * d < LEG_DISTANCE * HEIGHT_UNITS * (succ[i].cost + 1)
                /\ succ[i].cost >= 0
                /\ d = 0 => succ[i].cost = 0

CostTruncatedReached ==
    /\ expanded # 0
    /\ \E i \in DOMAIN succ : succ[i].cost > 0
    /\ \E i \in DOMAIN succ : succ[i].cost = 0

\* C9: an expansion of a node with recorded heading h returns exactly
\* 2 * turn pairs, one per integer heading a from h - turn up to but not
\* including h + turn, in order, the successor for a standing at the
\* parent's position plus the step vector with its fractions dropped.
ExpansionWindow ==
    expanded # 0 =>
        LET n == parents[expanded].node
        IN  /\ Len(succ) = 2 * max_turn
            /\ \A i \in DOMAIN succ :
                /\ succ[i].step = n.angle - max_turn + i - 1
                /\ succ[i].step < n.angle + max_turn
                /\ Abs(succ[i].node.x - n.x) * MILLI <= Abs(StepX(succ[i].step))
                /\ Abs(StepX(succ[i].step)) < (Abs(succ[i].node.x - n.x) + 1) * MILLI
                /\ (succ[i].node.x - n.x) * StepX(succ[i].step) >= 0
                /\ Abs(succ[i].node.y - n.y) * MILLI <= Abs(StepY(succ[i].step))
                /\ Abs(StepY(succ[i].step)) < (Abs(succ[i].node.y - n.y) + 1) * MILLI
                /\ (succ[i].node.y - n.y) * StepY(succ[i].step) >= 0

ExpansionWindowReached ==
    /\ expanded # 0
    /\ Len(succ) = 2 * MAX_TURN_ANGLE_DEG
    /\ \E i \in DOMAIN succ : succ[i].node.x < parents[expanded].node.x
    /\ \E i \in DOMAIN succ : succ[i].node.y < parents[expanded].node.y
    /\ \E i \in DOMAIN succ : succ[i].node.y > parents[expanded].node.y

====
